---- MODULE Spec2Model ----
(***************************************************************************)
(* dustdevil: server-side sessions (session.py) and the session handler    *)
(* (dustdevil/handler.py).  A session object lives in a request; the       *)
(* storage backend (File, Dir, MySQL, Redis, Mongo, Memcached) holds one   *)
(* entry per saved session.                                                *)
(*                                                                         *)
(* Time is counted in ticks, TicksPerSec ticks to the second: datetime has *)
(* sub-second resolution while the expiry stored beside an entry is cut to *)
(* whole seconds (int(time.mktime(...))).                                  *)
(***************************************************************************)
EXTENDS Integers, Sequences, FiniteSets, TLC

\* ------------------------------------------------------------------ bounds
MaxTime == 3
MaxIds == 2
MaxRequests == 2
TicksPerSec == 2
MaxCalls == 2

\* ------------------------------------------------------- program constants
DefaultDuration == 900
DefaultRegenerationInterval == 240
SecondsPerDay == 86400

\* Python's None, for a session id (ids are 1, 2, ...), a time and a string.
NoId == 0
NoTime == -1
NoneStr == "<None>"

Backends == {"File", "Dir", "MySQL", "Redis", "Mongo", "Memcached"}
Requests == {1}
Keys == {"k"}
Vals == {1}
\* The User-Agent header of the client's requests: given or not.
UserAgents == {"ua", NoneStr}
RemoteIp == "ip"

\* ---------------------------------------------------------------- durations
\* A duration setting as the application gives it: a timedelta (n seconds),
\* an int (n), a string (its characters s), None, or any other type.
TD(n) == [t |-> "td", n |-> n, s |-> <<>>]
IntV(n) == [t |-> "int", n |-> n, s |-> <<>>]
StrV(s) == [t |-> "str", n |-> 0, s |-> s]
NoneV == [t |-> "none", n |-> 0, s |-> <<>>]
OtherV == [t |-> "other", n |-> 0, s |-> <<>>]

Digits == <<"0", "1", "2", "3", "4", "5", "6", "7", "8", "9">>
IsDigit(c) == \E i \in 1..10 : Digits[i] = c
DigitVal(c) == (CHOOSE i \in 1..10 : Digits[i] = c) - 1

RECURSIVE ParseDigits(_, _)
ParseDigits(s, acc) ==
    IF s = <<>> THEN acc ELSE ParseDigits(Tail(s), 10 * acc + DigitVal(Head(s)))

\* int(v) of a string: an optional sign and decimal digits; anything else
\* raises ValueError.
IsIntLiteral(s) ==
    LET body == IF s # <<>> /\ Head(s) \in {"-", "+"} THEN Tail(s) ELSE s
    IN  body # <<>> /\ \A i \in 1..Len(body) : IsDigit(body[i])
ParseInt(s) ==
    IF Head(s) = "-" THEN 0 - ParseDigits(Tail(s), 0)
    ELSE IF Head(s) = "+" THEN ParseDigits(Tail(s), 0)
    ELSE ParseDigits(s, 0)

\* The isinstance chain of _expires_at / _next_regeneration_at: the value
\* as a timedelta, def seconds for None or an unsupported type; exc is the
\* exception int() raises on a string that is no number.
ToTimedelta(v, def) ==
    CASE v.t = "td" -> [exc |-> "none", d |-> v]
      [] v.t = "int" -> [exc |-> "none", d |-> TD(v.n)]
      [] v.t = "str" -> IF IsIntLiteral(v.s)
                        THEN [exc |-> "none", d |-> TD(ParseInt(v.s))]
                        ELSE [exc |-> "ValueError", d |-> v]
      [] OTHER -> [exc |-> "none", d |-> TD(def)]

Ticks(d) == d.n * TicksPerSec

\* int(time.mktime(t.timetuple())) and int(time.time()): whole seconds.
EpochSeconds(t) == t \div TicksPerSec

VARIABLES backend, settings, user_agent, now, store, nextId, served, sess, cookie, lastOp,
          proc

vars == <<backend, settings, user_agent, now, store, nextId, served, sess, cookie, lastOp,
          proc>>

\* ------------------------------------------------------------ BaseSession
Absent == 0
EmptyData == [k \in Keys |-> Absent]
DataValues == [Keys -> Vals \cup {Absent}]

\* The object no session: load's None, a request that holds no session.
NoSession ==
    [session_id |-> NoId, data |-> EmptyData, duration |-> NoneV,
     expires |-> NoTime, dirty |-> FALSE, ip_address |-> NoneStr,
     user_agent |-> NoneStr, security_model |-> "sm",
     regeneration_interval |-> NoneV, next_regeneration |-> NoTime,
     delete_cookie |-> FALSE, web |-> FALSE]

\* The keyword arguments the handler passes (create_session's kw); web says
\* that tornado_web is among them.
HandlerKw(cfg, ua) ==
    [NoSession EXCEPT !.duration = cfg.duration,
                      !.regeneration_interval = cfg.regeneration_interval,
                      !.ip_address = RemoteIp, !.user_agent = ua,
                      !.web = TRUE]

\* A world is what an operation of a session reads and changes outside the
\* session object: the backend's entries, the source of random ids, the
\* backend calls made, the call that fails and what Redis makes of BGSAVE.
World(st, nid) ==
    [store |-> st, nextId |-> nid, log |-> <<>>, fault |-> 0, bgsave |-> "ok"]
Logged(w, op, sid) == [w EXCEPT !.log = Append(@, [op |-> op, sid |-> sid])]

\* The storage whose client raises in the n-th call an operation makes of
\* it (a file that cannot be opened, a lost connection): the call is
\* logged as failed and changes nothing.
FailingWorld(st, nid, n) == [World(st, nid) EXCEPT !.fault = n]
Fails(w) == w.fault = Len(w.log) + 1
StorageError(s, w, call, sid) ==
    [s |-> s, w |-> Logged(w, call, sid), exc |-> "StorageError"]

\* What connection.save(background=True) does: it returns, or raises
\* redis.ResponseError (a save is in progress), or another error of the
\* client (redis.ConnectionError, redis.TimeoutError).
BgsaveOutcomes == {"ok", "ResponseError", "ConnectionError", "TimeoutError"}
CheckpointWorld(st, nid, k) == [World(st, nid) EXCEPT !.bgsave = k]

\* os.urandom(32).encode('hex'): an id never given before.
GenerateSessionId(w) == [id |-> w.nextId, w |-> [w EXCEPT !.nextId = @ + 1]]

\* _is_expired with a session expired from the moment of its expiry on.
IsExpiredAtExpiry(s, t) == t >= s.expires

IsExpired(s, t) == t > s.expires

ShouldRegenerate(s, t) == t > s.next_regeneration

\* _expires_at: normalizes self.duration in place, returns now + duration;
\* e is the normalization's outcome.
Expiry(s, t, e) ==
    [exc |-> e.exc,
     s |-> IF e.exc = "none" THEN [s EXCEPT !.duration = e.d] ELSE s,
     at |-> IF e.exc = "none" THEN t + Ticks(e.d) ELSE NoTime]
ExpiresAt(s, t) == Expiry(s, t, ToTimedelta(s.duration, DefaultDuration))

\* _next_regeneration_at: the same for self.regeneration_interval.
Regeneration(s, t, e) ==
    [exc |-> e.exc,
     s |-> IF e.exc = "none" THEN [s EXCEPT !.regeneration_interval = e.d] ELSE s,
     at |-> IF e.exc = "none" THEN t + Ticks(e.d) ELSE NoTime]
NextRegenerationAt(s, t) ==
    Regeneration(s, t, ToTimedelta(s.regeneration_interval,
                                   DefaultRegenerationInterval))

Ok(s, w) == [s |-> s, w |-> w, exc |-> "none"]
Raise(s, w, exc) == [s |-> s, w |-> w, exc |-> exc]

\* An exception leaves the caller without the object.
Propagate(r) == IF r.exc # "none" THEN Raise(NoSession, r.w, r.exc) ELSE r

\* BaseSession.__init__, its last part: self.next_regeneration =
\* next_regeneration or self._next_regeneration_at(); n is what
\* _next_regeneration_at gives.
InitNextRegeneration(n, w) ==
    IF n.exc # "none" THEN Raise(n.s, w, n.exc)
    ELSE Ok([n.s EXCEPT !.next_regeneration = n.at], w)
InitRest(kw, s, w, t) ==
    IF kw.next_regeneration # NoTime THEN Ok(s, w)
    ELSE InitNextRegeneration(NextRegenerationAt(s, t), w)

\* BaseSession.__init__ without a session_id: a new id g, empty data,
\* expires = self._expires_at() (e), dirty.
InitExpires(kw, e, w, t) ==
    IF e.exc # "none" THEN Raise(e.s, w, e.exc)
    ELSE InitRest(kw, [e.s EXCEPT !.expires = e.at], w, t)
InitFresh(kw, g, t) ==
    InitExpires(kw,
                ExpiresAt([kw EXCEPT !.session_id = g.id, !.data = EmptyData,
                                     !.dirty = TRUE, !.delete_cookie = FALSE], t),
                g.w, t)

\* BaseSession.__init__(**kw) at time t.
BaseSessionInit(kw, w, t) ==
    IF kw.session_id # NoId
    THEN InitRest(kw, [kw EXCEPT !.dirty = FALSE, !.delete_cookie = FALSE], w, t)
    ELSE InitFresh(kw, GenerateSessionId(w), t)

\* Serialize with expires cut to whole seconds, as the expires column is.
SerializeTruncated(s) ==
    [b64 |-> [session_id |-> s.session_id, data |-> s.data,
              duration |-> s.duration,
              expires |-> EpochSeconds(s.expires) * TicksPerSec,
              ip_address |-> s.ip_address, user_agent |-> s.user_agent,
              security_model |-> s.security_model,
              regeneration_interval |-> s.regeneration_interval,
              next_regeneration |-> s.next_regeneration]]

\* serialize: the nine fields of the dump, pickled and base64-encoded.
Serialize(s) ==
    [b64 |-> [session_id |-> s.session_id, data |-> s.data,
              duration |-> s.duration, expires |-> s.expires,
              ip_address |-> s.ip_address, user_agent |-> s.user_agent,
              security_model |-> s.security_model,
              regeneration_interval |-> s.regeneration_interval,
              next_regeneration |-> s.next_regeneration]]

\* deserialize: the dump as keyword arguments, over the arguments extra
\* (MySQLSession.load's kwargs.update(stored_kwargs)).
Deserialize(p, extra) ==
    [extra EXCEPT !.session_id = p.b64.session_id, !.data = p.b64.data,
                  !.duration = p.b64.duration, !.expires = p.b64.expires,
                  !.ip_address = p.b64.ip_address,
                  !.user_agent = p.b64.user_agent,
                  !.security_model = p.b64.security_model,
                  !.regeneration_interval = p.b64.regeneration_interval,
                  !.next_regeneration = p.b64.next_regeneration]

\* ---------------------------------------------------------------- backends
\* An entry of a backend: a CSV row (File, Dir), a table row (MySQL), a
\* key and its colon-joined value (Redis, Memcached), a document (Mongo).
\* dropAt is the tick at which Memcached itself drops the key (NoTime:
\* never, and for every other backend).
Entry(sid, payload, expires, ip, ua, dropAt) ==
    [sid |-> sid, payload |-> payload, expires |-> expires, ip |-> ip,
     ua |-> ua, dropAt |-> dropAt]

\* An insert that leaves the entry the id had.
UpsertAppended(st, e) == st \cup {e}

\* insert-or-replace of the entry of one id
Upsert(st, e) == {x \in st : x.sid # e.sid} \cup {e}
Remove(st, sid) == {x \in st : x.sid # sid}
Find(st, sid) == {x \in st : x.sid = sid}

\* csv writes None as the empty field
CsvField(x) == IF x = NoneStr THEN "" ELSE x

\* FileSession.save: the file rewritten with the session's row replaced or
\* appended.
FileSessionSave(s, w, t) ==
    IF ~s.dirty THEN Ok(s, w)
    ELSE IF Fails(w) THEN StorageError(s, w, "write failed", s.session_id)
    ELSE Ok([s EXCEPT !.dirty = FALSE],
            Logged([w EXCEPT !.store =
                       Upsert(@, Entry(s.session_id, Serialize(s),
                                       EpochSeconds(s.expires),
                                       CsvField(s.ip_address),
                                       CsvField(s.user_agent), NoTime))],
                   "write", s.session_id))

\* DirSession.save: <session_id>.session written through a temporary file.
DirSessionSave(s, w, t) ==
    IF ~s.dirty THEN Ok(s, w)
    ELSE IF Fails(w) THEN StorageError(s, w, "write failed", s.session_id)
    ELSE Ok([s EXCEPT !.dirty = FALSE],
            Logged([w EXCEPT !.store =
                       Upsert(@, Entry(s.session_id, Serialize(s),
                                       EpochSeconds(s.expires),
                                       CsvField(s.ip_address),
                                       CsvField(s.user_agent), NoTime))],
                   "write", s.session_id))

\* MySQLSession.save: insert ... on duplicate key update.
MySQLSessionSave(s, w, t) ==
    IF ~s.dirty THEN Ok(s, w)
    ELSE IF Fails(w) THEN StorageError(s, w, "write failed", s.session_id)
    ELSE Ok([s EXCEPT !.dirty = FALSE],
            Logged([w EXCEPT !.store =
                       Upsert(@, Entry(s.session_id, Serialize(s),
                                       EpochSeconds(s.expires),
                                       s.ip_address, s.user_agent, NoTime))],
                   "write", s.session_id))

\* ':'.join of the value raises TypeError on a None ip_address or
\* user_agent, before anything is written.
JoinRaises(s) == s.ip_address = NoneStr \/ s.user_agent = NoneStr

\* RedisSession.save after its SET (w): connection.save(background=True)
\* in a try that catches redis.ResponseError only, then self.dirty = False.
RedisCheckpoint(s, w) ==
    IF w.bgsave = "ok" THEN Ok([s EXCEPT !.dirty = FALSE], w)
    ELSE IF w.bgsave = "ResponseError"
    THEN Ok([s EXCEPT !.dirty = FALSE], Logged(w, "bgsave failed", s.session_id))
    ELSE Raise(s, Logged(w, "bgsave failed", s.session_id), w.bgsave)

\* RedisSession.save: SET, then BGSAVE whose ResponseError is swallowed.
RedisSessionSave(s, w, t) ==
    IF ~s.dirty THEN Ok(s, w)
    ELSE IF JoinRaises(s) THEN Raise(s, w, "TypeError")
    ELSE IF Fails(w) THEN StorageError(s, w, "write failed", s.session_id)
    ELSE RedisCheckpoint(s,
            Logged([w EXCEPT !.store =
                       Upsert(@, Entry(s.session_id, Serialize(s),
                                       EpochSeconds(s.expires),
                                       s.ip_address, s.user_agent, NoTime))],
                   "write", s.session_id))

\* MongoDBSession.save: update(..., upsert=True); dirty is neither read nor
\* written; the document holds no ip_address.
MongoDBSessionSave(s, w, t) ==
    IF Fails(w) THEN StorageError(s, w, "write failed", s.session_id)
    ELSE
    Ok(s, Logged([w EXCEPT !.store =
                     Upsert(@, Entry(s.session_id, Serialize(s),
                                     EpochSeconds(s.expires),
                                     NoneStr, s.user_agent, NoTime))],
                 "write", s.session_id))

\* (self.expires - datetime.now()).seconds: the seconds field of the
\* timedelta, which leaves out its days.
LiveSec(s, t) == ((s.expires - t) \div TicksPerSec) % SecondsPerDay

\* MemcachedSession.save: set(key, value, time=live_sec.seconds); a time
\* of 0 keeps the key for ever.
MemcachedSessionSave(s, w, t) ==
    IF ~s.dirty THEN Ok(s, w)
    ELSE IF JoinRaises(s) THEN Raise(s, w, "TypeError")
    ELSE IF Fails(w) THEN StorageError(s, w, "write failed", s.session_id)
    ELSE Ok([s EXCEPT !.dirty = FALSE],
            Logged([w EXCEPT !.store =
                       Upsert(@, Entry(s.session_id, Serialize(s),
                                       EpochSeconds(s.expires),
                                       s.ip_address, s.user_agent,
                                       IF LiveSec(s, t) = 0 THEN NoTime
                                       ELSE t + LiveSec(s, t) * TicksPerSec))],
                   "write", s.session_id))

Save(b, s, w, t) ==
    CASE b = "File" -> FileSessionSave(s, w, t)
      [] b = "Dir" -> DirSessionSave(s, w, t)
      [] b = "MySQL" -> MySQLSessionSave(s, w, t)
      [] b = "Redis" -> RedisSessionSave(s, w, t)
      [] b = "Mongo" -> MongoDBSessionSave(s, w, t)
      [] b = "Memcached" -> MemcachedSessionSave(s, w, t)

\* Delete that removes nothing.
DeleteNothing(b, s, w) == [s |-> s, w |-> w, exc |-> "none"]

\* delete of every backend: the entry of self.session_id removed if there
\* is one (Redis: then BGSAVE, ResponseError swallowed).
Delete(b, s, w) ==
    IF Fails(w) /\ (b # "Dir" \/ Find(w.store, s.session_id) # {})
    THEN StorageError(s, w, "delete failed", s.session_id)
    ELSE
    Ok(s, Logged([w EXCEPT !.store = Remove(@, s.session_id)],
                 "delete", s.session_id))

\* Backend(client, **kw): BaseSession.__init__ (i), then save() unless the
\* keyword arguments hold a session_id.
Constructed(b, kw, i, t) ==
    IF i.exc # "none" \/ kw.session_id # NoId THEN Propagate(i)
    ELSE Propagate(Save(b, i.s, i.w, t))
Construct(b, kw, w, t) == Constructed(b, kw, BaseSessionInit(kw, w, t), t)

\* load(session_id, client) of every backend: None when no entry is
\* found (MySQL: by the UnboundLocalError its except swallows), otherwise
\* the class constructed from the deserialized payload.
Load(b, sid, extra, w, t) ==
    IF sid = NoId \/ Find(w.store, sid) = {} THEN NoSession
    ELSE Construct(b, Deserialize((CHOOSE x \in Find(w.store, sid) : TRUE).payload,
                                  extra), w, t).s

\* Which load takes the keyword arguments create_session passes: only
\* MySQLSession.load(session_id, connection, **kwargs).
LoadTakesKw(b) == b = "MySQL"

\* delete_expired of each backend at time t: the entries it keeps.
FileDeleteExpired(st, t) == {e \in st : e.expires > EpochSeconds(t)}
DirDeleteExpired(st, t) == {e \in st : ~(e.expires < EpochSeconds(t))}
MySQLDeleteExpired(st, t) == {e \in st : ~(e.expires < EpochSeconds(t))}
RedisDeleteExpired(st, t) == {e \in st : ~(e.expires < EpochSeconds(t))}
MongoDBDeleteExpired(st, t) == {e \in st : ~(e.expires <= EpochSeconds(t))}

DeleteExpired(b, st, t) ==
    CASE b = "File" -> FileDeleteExpired(st, t)
      [] b = "Dir" -> DirDeleteExpired(st, t)
      [] b = "MySQL" -> MySQLDeleteExpired(st, t)
      [] b = "Redis" -> RedisDeleteExpired(st, t)
      [] b = "Mongo" -> MongoDBDeleteExpired(st, t)
      [] OTHER -> st

\* Memcached drops a key when its time is over.
Evict(st, t) == {e \in st : e.dropAt = NoTime \/ t < e.dropAt}

\* ------------------------------------------------- BaseSession operations
\* Python's truth of a duration argument (refresh's "if duration:").
Truthy(v) ==
    CASE v.t = "none" -> FALSE
      [] v.t \in {"td", "int"} -> v.n # 0
      [] v.t = "str" -> v.s # <<>>
      [] OTHER -> TRUE

\* Invalidate that marks the cookie for removal and leaves the entry.
InvalidateNoDelete(b, s, w) ==
    [s |-> [s EXCEPT !.delete_cookie = TRUE], w |-> w, exc |-> "none"]

\* invalidate: delete, then mark the cookie for removal.
\* An invalidate that marks the cookie whatever its delete did.
InvalidatedAnyway(d) == Ok([d.s EXCEPT !.delete_cookie = TRUE], d.w)

\* invalidate after self.delete() (d): an exception of the delete leaves
\* the method before the cookie is marked.
Invalidated(d) ==
    IF d.exc # "none" THEN d ELSE Ok([d.s EXCEPT !.delete_cookie = TRUE], d.w)
Invalidate(b, s, w) == Invalidated(Delete(b, s, w))

\* refresh's new_session_id branch, after _next_regeneration_at (n):
\* dirty, save.
RotatedSave(b, n, w, t) ==
    IF n.exc # "none" THEN Raise(n.s, w, n.exc)
    ELSE Save(b, [n.s EXCEPT !.next_regeneration = n.at, !.dirty = TRUE], w, t)

\* self.session_id = self._generate_session_id() (g), then
\* self.next_regeneration = self._next_regeneration_at().
Regenerated(b, s, g, t) ==
    RotatedSave(b, NextRegenerationAt([s EXCEPT !.session_id = g.id], t), g.w, t)

\* A rotation that leaves the entry of the old id where it is.
RotateNoDelete(b, s, w, t) == Regenerated(b, s, GenerateSessionId(w), t)

\* refresh's new_session_id branch: self.delete(), a new session_id, a new
\* next_regeneration, save.
Deleted(b, d, t) ==
    IF d.exc # "none" THEN d
    ELSE Regenerated(b, d.s, GenerateSessionId(d.w), t)
Rotate(b, s, w, t) == Deleted(b, Delete(b, s, w), t)

\* refresh after self.expires = self._expires_at() (e).
Refreshed(b, e, w, t, new_session_id) ==
    IF e.exc # "none" THEN Raise(e.s, w, e.exc)
    ELSE IF ~new_session_id
    THEN Save(b, [e.s EXCEPT !.expires = e.at, !.dirty = TRUE], w, t)
    ELSE Rotate(b, [e.s EXCEPT !.expires = e.at], w, t)

\* refresh(duration, new_session_id) at time t.
Refresh(b, s, w, t, duration, new_session_id) ==
    Refreshed(b,
              ExpiresAt(IF Truthy(duration) THEN [s EXCEPT !.duration = duration]
                        ELSE s, t),
              w, t, new_session_id)

\* What finish tells the client: nothing, the session cookie set to an id,
\* or the session cookie cleared.
NoCookie == [kind |-> "none", sid |-> NoId]
SetCookie(sid) == [kind |-> "set", sid |-> sid]
ClearCookie == [kind |-> "cleared", sid |-> NoId]

\* finish's cookie call on self._tornado_web, which raises AttributeError
\* on None; r is what came before the call.
CookieCall(r, c) ==
    [s |-> r.s, w |-> r.w,
     exc |-> IF r.exc # "none" THEN r.exc
             ELSE IF r.s.web THEN "none" ELSE "AttributeError",
     cookie |-> IF r.exc = "none" /\ r.s.web THEN c ELSE NoCookie]
SetSecureCookie(r) == CookieCall(r, SetCookie(r.s.session_id))

\* Finish that sets the cookie without refreshing and saving the session.
FinishNoRefresh(b, s, w, t) ==
    IF s.delete_cookie THEN CookieCall(Ok(s, w), ClearCookie)
    ELSE SetSecureCookie(Ok(s, w))

\* finish: clear the cookie of an invalidated session, otherwise refresh()
\* and set the cookie to session_id.
Finish(b, s, w, t) ==
    IF s.delete_cookie THEN CookieCall(Ok(s, w), ClearCookie)
    ELSE SetSecureCookie(Refresh(b, s, w, t, NoneV, FALSE))

\* ----------------------------------------------------------------- Handler
\* A create_session that never regenerates the id of the session it loaded.
ReturnSessionNoRegenerate(b, old_session, new_session, t) ==
    IF new_session.exc # "none" THEN new_session
    ELSE IF old_session.session_id # NoId THEN Ok(old_session, new_session.w)
    ELSE new_session

\* create_session from "if old_session is not None" on; new_session is the
\* outcome of the construction before it (Ok(NoSession, w) when none was
\* made).
ReturnSession(b, old_session, new_session, t) ==
    IF new_session.exc # "none" THEN new_session
    ELSE IF old_session.session_id # NoId
    THEN IF ShouldRegenerate(old_session, t)
         THEN Propagate(Refresh(b, old_session, new_session.w, t, NoneV, TRUE))
         ELSE Ok(old_session, new_session.w)
    ELSE new_session

\* create_session after the load: a new session is constructed when nothing
\* was loaded or what was loaded is expired.
AfterLoad(b, kw, old_session, w, t) ==
    ReturnSession(b, old_session,
                  IF old_session.session_id = NoId \/ IsExpired(old_session, t)
                  THEN Construct(b, kw, w, t)
                  ELSE Ok(NoSession, w),
                  t)

\* Handler.create_session(tornado_web, session_id): sid is the id given or
\* the one of the client's cookie, ua the request's User-Agent.
CreateSession(b, cfg, sid, ua, w, t) ==
    IF ~LoadTakesKw(b) THEN Raise(NoSession, w, "TypeError")
    ELSE AfterLoad(b, HandlerKw(cfg, ua), Load(b, sid, HandlerKw(cfg, ua), w, t),
                   w, t)

\* ------------------------------------------------------------ state machine
\* The settings an application may give (session_age / duration and
\* session_regeneration_interval), in seconds.
Settings ==
    {[duration |-> IntV(1), regeneration_interval |-> TD(2)],
     [duration |-> StrV(<<"2">>), regeneration_interval |-> IntV(1)]}
RefreshDurations == {NoneV, IntV(1)}

\* The last operation: its name, request, session id argument, flag
\* argument, the exception it raised, the backend calls it made, for
\* finish the session object it leaves behind and for refresh its duration
\* argument.
Op(op, r, sid, flag, res) ==
    [op |-> op, r |-> r, sid |-> sid, flag |-> flag, exc |-> res.exc,
     log |-> res.w.log, s |-> IF op = "finish" THEN res.s ELSE NoSession,
     duration |-> NoneV]

\* Two requests (or a request and the sweeping job) that run at the same
\* time, each in its own process.  A process makes one operation, one
\* step of its storage calls at a time: op is the operation, sid the id it
\* loads or deletes, s its session object, pc its place, snap what it read
\* from the storage, calls the storage calls it has still to make, left
\* the ids its sweep has still to visit, got what its load returned, exc
\* the exception that ended it.
Procs == {1, 2}
Idle == [op |-> "idle", pc |-> "idle", sid |-> NoId, s |-> NoSession,
         calls |-> <<>>, snap |-> {}, left |-> {}, got |-> NoSession,
         exc |-> "none"]

NoOp == [op |-> "init", r |-> 0, sid |-> NoId, flag |-> FALSE,
         exc |-> "none", log |-> <<>>, s |-> NoSession, duration |-> NoneV]

Init ==
    /\ backend \in Backends
    /\ settings \in Settings
    /\ user_agent \in UserAgents
    /\ now = 0
    /\ store = {}
    /\ nextId = 1
    /\ served = 0
    /\ sess = [r \in Requests |-> NoSession]
    /\ cookie = [r \in Requests |-> NoCookie]
    /\ lastOp = NoOp
    /\ proc = [p \in Procs |-> Idle]

Active(r) == sess[r].session_id # NoId

\* The effect of an operation of request r's session on the state.
Effect(r, res, s) ==
    /\ res.w.nextId <= MaxIds + 1
    /\ store' = res.w.store
    /\ nextId' = res.w.nextId
    /\ sess' = [sess EXCEPT ![r] = s]
    /\ UNCHANGED <<backend, settings, user_agent, now, proc>>

\* Time passes; Memcached drops the keys whose time is over.
Tick ==
    /\ now < MaxTime
    /\ now' = now + 1
    /\ store' = IF backend = "Memcached" THEN Evict(store, now + 1) ELSE store
    /\ lastOp' = [NoOp EXCEPT !.op = "tick"]
    /\ UNCHANGED <<backend, settings, user_agent, nextId, served, sess, cookie, proc>>

\* An operation of request r's session has given res: the state after it.
Commit(op, r, sid, flag, res) ==
    /\ Effect(r, res, res.s)
    /\ lastOp' = Op(op, r, sid, flag, res)
    /\ UNCHANGED cookie

\* A request arrives and the application calls Handler.create_session.
DoCreateSession(r, sid) ==
    /\ ~Active(r)
    /\ served < MaxRequests
    /\ served' = served + 1
    /\ Commit("create_session", r, sid, FALSE,
              CreateSession(backend, settings, sid, user_agent,
                            World(store, nextId), now))

\* The application constructs a session of the storage class itself, with
\* the handler's keyword arguments.
DoConstruct(r) ==
    /\ ~Active(r)
    /\ served < MaxRequests
    /\ served' = served + 1
    /\ Commit("construct", r, NoId, FALSE,
              Construct(backend, HandlerKw(settings, user_agent),
                        World(store, nextId), now))

\* The application calls the storage class's load(session_id, client).
DoLoad(r, sid) ==
    /\ ~Active(r)
    /\ served < MaxRequests
    /\ served' = served + 1
    /\ Commit("load", r, sid, FALSE,
              Ok(Load(backend, sid, NoSession, World(store, nextId), now),
                 World(store, nextId)))

\* session[k] = v
DoSetItem(r, k, v) ==
    /\ Active(r)
    /\ UNCHANGED served
    /\ Commit("setitem", r, NoId, FALSE,
              Ok([sess[r] EXCEPT !.data[k] = v, !.dirty = TRUE],
                 World(store, nextId)))

\* del session[k]: KeyError, and nothing changed, when k is not there.
DoDelItem(r, k) ==
    /\ Active(r)
    /\ UNCHANGED served
    /\ Commit("delitem", r, NoId, FALSE,
              IF sess[r].data[k] # Absent
              THEN Ok([sess[r] EXCEPT !.data[k] = Absent, !.dirty = TRUE],
                      World(store, nextId))
              ELSE Raise(sess[r], World(store, nextId), "KeyError"))

DoSave(r) ==
    /\ Active(r)
    /\ UNCHANGED served
    /\ Commit("save", r, sess[r].session_id, FALSE,
              Save(backend, sess[r], World(store, nextId), now))

DoDelete(r) ==
    /\ Active(r)
    /\ UNCHANGED served
    /\ Commit("delete", r, sess[r].session_id, FALSE,
              Delete(backend, sess[r], World(store, nextId)))

DoRefresh(r, duration, new_session_id) ==
    /\ Active(r)
    /\ UNCHANGED served
    /\ Commit("refresh", r, sess[r].session_id, new_session_id,
              Refresh(backend, sess[r], World(store, nextId), now,
                      duration, new_session_id))

DoInvalidate(r) ==
    /\ Active(r)
    /\ UNCHANGED served
    /\ Commit("invalidate", r, sess[r].session_id, FALSE,
              Invalidate(backend, sess[r], World(store, nextId)))

\* finish has given res: the request is over, its session object gone.
CommitFinish(r, res) ==
    /\ Effect(r, res, NoSession)
    /\ cookie' = [cookie EXCEPT ![r] = res.cookie]
    /\ lastOp' = Op("finish", r, sess[r].session_id, sess[r].delete_cookie, res)

\* The request handler finishes: session.finish(), and the request is over.
DoFinish(r) ==
    /\ Active(r)
    /\ UNCHANGED served
    /\ CommitFinish(r, Finish(backend, sess[r], World(store, nextId), now))

\* The ways delete_expired is called: on the class with the client, as
\* the staticmethods of the storage classes are; on a session object with
\* the client; on a session object without an argument.
SweepCalls == {"Class(client)", "session(client)", "session()"}

\* What the call raises.  MemcachedSession.delete_expired(connection) is
\* defined without @staticmethod: the first two calls fail with TypeError
\* (an unbound method called without an instance; two arguments for one
\* parameter) and only session.delete_expired() gets to its raise
\* NotImplementedError.  The staticmethods of the other classes miss their
\* argument in the third call.
SweepRaises(b, call) ==
    CASE b = "Memcached" /\ call = "session()" -> "NotImplementedError"
      [] b = "Memcached" -> "TypeError"
      [] call = "session()" -> "TypeError"
      [] OTHER -> "none"

\* The application's periodic job calls the storage class's
\* delete_expired.
DoDeleteExpired(call) ==
    /\ call = "Class(client)" \/ \E r \in Requests : Active(r)
    /\ store' = IF SweepRaises(backend, call) = "none"
                THEN DeleteExpired(backend, store, now) ELSE store
    /\ lastOp' = [NoOp EXCEPT !.op = "delete_expired",
                              !.exc = SweepRaises(backend, call)]
    /\ UNCHANGED <<backend, settings, user_agent, now, nextId, served, sess, cookie, proc>>

\* A request handled through the Handler: create_session, the handler's
\* work on the session, finish.
Next ==
    \/ Tick
    \/ \E r \in Requests, sid \in 0..MaxIds :
          sid < nextId /\ DoCreateSession(r, sid)
    \/ \E r \in Requests, k \in Keys, v \in Vals : DoSetItem(r, k, v)
    \/ \E r \in Requests, k \in Keys : DoDelItem(r, k)
    \/ \E r \in Requests : DoInvalidate(r)
    \/ \E r \in Requests : DoFinish(r)

Spec == Init /\ [][Next]_vars

\* Requests that get their session from the handler or construct it
\* themselves, and also prolong it themselves before they finish.
NextProlong ==
    \/ Tick
    \/ \E r \in Requests : DoConstruct(r)
    \/ \E r \in Requests, sid \in 0..MaxIds :
          sid < nextId /\ DoCreateSession(r, sid)
    \/ \E r \in Requests, k \in Keys, v \in Vals : DoSetItem(r, k, v)
    \/ \E r \in Requests : DoRefresh(r, NoneV, FALSE)
    \/ \E r \in Requests : DoFinish(r)

SpecProlong == Init /\ [][NextProlong]_vars

\* An application that works with the storage classes themselves: it
\* constructs and loads sessions, saves and deletes them and sweeps.
NextBackend ==
    \/ Tick
    \/ \E r \in Requests : DoConstruct(r)
    \/ \E r \in Requests, sid \in 1..MaxIds : sid < nextId /\ DoLoad(r, sid)
    \/ \E r \in Requests, k \in Keys, v \in Vals : DoSetItem(r, k, v)
    \/ \E r \in Requests : DoSave(r)
    \/ \E r \in Requests : DoDelete(r)
    \/ \E r \in Requests : DoFinish(r)
    \/ \E call \in SweepCalls : DoDeleteExpired(call)

SpecBackend == Init /\ [][NextBackend]_vars

\* An application that refreshes and rotates the sessions of the storage
\* classes.
NextSession ==
    \/ Tick
    \/ \E r \in Requests : DoConstruct(r)
    \/ \E r \in Requests, sid \in 1..MaxIds : sid < nextId /\ DoLoad(r, sid)
    \/ \E r \in Requests, k \in Keys, v \in Vals : DoSetItem(r, k, v)
    \/ \E r \in Requests, d \in RefreshDurations, n \in BOOLEAN : DoRefresh(r, d, n)
    \/ \E r \in Requests : DoFinish(r)

SpecSession == Init /\ [][NextSession]_vars

\* An application that logs users out: it invalidates sessions of the
\* storage classes.
NextLogout ==
    \/ Tick
    \/ \E r \in Requests : DoConstruct(r)
    \/ \E r \in Requests, sid \in 1..MaxIds : sid < nextId /\ DoLoad(r, sid)
    \/ \E r \in Requests, k \in Keys, v \in Vals : DoSetItem(r, k, v)
    \/ \E r \in Requests : DoInvalidate(r)
    \/ \E r \in Requests : DoFinish(r)

SpecLogout == Init /\ [][NextLogout]_vars

\* The operations of a session on a storage whose client raises in the
\* n-th call made of it.
DoRefreshFailing(r, new_session_id, n) ==
    /\ Active(r)
    /\ UNCHANGED served
    /\ Commit("refresh", r, sess[r].session_id, new_session_id,
              Refresh(backend, sess[r], FailingWorld(store, nextId, n), now,
                      NoneV, new_session_id))

DoInvalidateFailing(r, n) ==
    /\ Active(r)
    /\ UNCHANGED served
    /\ Commit("invalidate", r, sess[r].session_id, FALSE,
              Invalidate(backend, sess[r], FailingWorld(store, nextId, n)))

DoFinishFailing(r, n) ==
    /\ Active(r)
    /\ UNCHANGED served
    /\ CommitFinish(r, Finish(backend, sess[r],
                              FailingWorld(store, nextId, n), now))

\* An application on a storage that fails now and then.
NextFault ==
    \/ Tick
    \/ \E r \in Requests : DoConstruct(r)
    \/ \E r \in Requests, f \in BOOLEAN, n \in 1..MaxCalls :
          DoRefreshFailing(r, f, n)
    \/ \E r \in Requests, n \in 1..MaxCalls : DoInvalidateFailing(r, n)
    \/ \E r \in Requests, n \in 1..MaxCalls : DoFinishFailing(r, n)

SpecFault == Init /\ [][NextFault]_vars

\* The duration arguments an application passes to refresh: none, counts
\* of seconds as int, string and timedelta, zero, a string that is no
\* number.
RefreshInputs ==
    {NoneV, IntV(0), IntV(1), StrV(<<"3">>), TD(2), StrV(<<"x">>)}

\* session.refresh(duration=d)
RefreshedFor(r, d, res) ==
    /\ Effect(r, res, res.s)
    /\ lastOp' = [Op("refresh", r, sess[r].session_id, FALSE, res)
                     EXCEPT !.duration = d]
    /\ UNCHANGED cookie
DoRefreshFor(r, d) ==
    /\ Active(r)
    /\ UNCHANGED served
    /\ RefreshedFor(r, d, Refresh(backend, sess[r], World(store, nextId), now,
                                  d, FALSE))

\* An application that refreshes its sessions for durations of its own.
NextRefresh ==
    \/ Tick
    \/ \E r \in Requests : DoConstruct(r)
    \/ \E r \in Requests, sid \in 1..MaxIds : sid < nextId /\ DoLoad(r, sid)
    \/ \E r \in Requests, d \in RefreshInputs : DoRefreshFor(r, d)
    \/ \E r \in Requests : DoFinish(r)

SpecRefresh == Init /\ [][NextRefresh]_vars

\* session[k], iter(session) and len(session): they read self.data;
\* session[k] raises KeyError when k is not there.
DoGetItem(r, k) ==
    /\ Active(r)
    /\ lastOp' = [NoOp EXCEPT !.op = "getitem", !.r = r,
                              !.exc = IF sess[r].data[k] = Absent
                                      THEN "KeyError" ELSE "none"]
    /\ UNCHANGED <<backend, settings, user_agent, now, store, nextId, served,
                   sess, cookie, proc>>
DoIter(r) ==
    /\ Active(r)
    /\ lastOp' = [NoOp EXCEPT !.op = "iter", !.r = r]
    /\ UNCHANGED <<backend, settings, user_agent, now, store, nextId, served,
                   sess, cookie, proc>>
DoLen(r) ==
    /\ Active(r)
    /\ lastOp' = [NoOp EXCEPT !.op = "len", !.r = r]
    /\ UNCHANGED <<backend, settings, user_agent, now, store, nextId, served,
                   sess, cookie, proc>>

\* An application that reads and writes the keys of its sessions and
\* refreshes and rotates them, on a storage that fails now and then.
NextMap ==
    \/ Tick
    \/ \E r \in Requests : DoConstruct(r)
    \/ \E r \in Requests, sid \in 1..MaxIds : sid < nextId /\ DoLoad(r, sid)
    \/ \E r \in Requests, k \in Keys, v \in Vals : DoSetItem(r, k, v)
    \/ \E r \in Requests, k \in Keys : DoDelItem(r, k)
    \/ \E r \in Requests, k \in Keys : DoGetItem(r, k)
    \/ \E r \in Requests : DoIter(r)
    \/ \E r \in Requests : DoLen(r)
    \/ \E r \in Requests, f \in BOOLEAN, n \in 0..MaxCalls :
          DoRefreshFailing(r, f, n)

SpecMap == Init /\ [][NextMap]_vars

\* session.save() on a Redis whose BGSAVE does k.
DoSaveCheckpoint(r, k) ==
    /\ Active(r)
    /\ UNCHANGED served
    /\ Commit("save", r, sess[r].session_id, FALSE,
              Save(backend, sess[r], CheckpointWorld(store, nextId, k), now))

InitRedis ==
    /\ backend = "Redis"
    /\ settings \in Settings
    /\ user_agent = "ua"
    /\ now = 0
    /\ store = {}
    /\ nextId = 1
    /\ served = 0
    /\ sess = [r \in Requests |-> NoSession]
    /\ cookie = [r \in Requests |-> NoCookie]
    /\ lastOp = NoOp
    /\ proc = [p \in Procs |-> Idle]

\* An application on Redis that saves sessions while BGSAVE fails now and
\* then.
NextCheckpoint ==
    \/ Tick
    \/ \E r \in Requests : DoConstruct(r)
    \/ \E r \in Requests, sid \in 1..MaxIds : sid < nextId /\ DoLoad(r, sid)
    \/ \E r \in Requests, k \in Keys, v \in Vals : DoSetItem(r, k, v)
    \/ \E r \in Requests, k \in BgsaveOutcomes : DoSaveCheckpoint(r, k)
    \/ \E r \in Requests : DoFinish(r)

SpecCheckpoint == InitRedis /\ [][NextCheckpoint]_vars

\* An application that saves, deletes, rotates and sweeps the sessions of
\* the storage classes.
NextStore ==
    \/ Tick
    \/ \E r \in Requests : DoConstruct(r)
    \/ \E r \in Requests, sid \in 1..MaxIds : sid < nextId /\ DoLoad(r, sid)
    \/ \E r \in Requests, k \in Keys, v \in Vals : DoSetItem(r, k, v)
    \/ \E r \in Requests : DoSave(r)
    \/ \E r \in Requests : DoDelete(r)
    \/ \E r \in Requests : DoRefresh(r, NoneV, TRUE)
    \/ \E r \in Requests : DoFinish(r)
    \/ DoDeleteExpired("Class(client)")

SpecStore == Init /\ [][NextStore]_vars

\* An application on Memcached whose sessions last a second, a day, or a
\* day and a second.
DaySettings ==
    {[duration |-> IntV(n), regeneration_interval |-> TD(2)] :
        n \in {1, SecondsPerDay, SecondsPerDay + 1}}

InitDay ==
    /\ backend = "Memcached"
    /\ settings \in DaySettings
    /\ user_agent = "ua"
    /\ now = 0
    /\ store = {}
    /\ nextId = 1
    /\ served = 0
    /\ sess = [r \in Requests |-> NoSession]
    /\ cookie = [r \in Requests |-> NoCookie]
    /\ lastOp = NoOp
    /\ proc = [p \in Procs |-> Idle]

SpecDay == InitDay /\ [][NextBackend]_vars

\* ---------------------------------------------------------------- Handler
\* The session_storage setting, a string, as its characters; the empty
\* string is what settings.get('session_storage', '') gives when the
\* setting is absent.
Urls ==
    {<<"m", "y", "s", "q", "l", ":", "/", "/", "u", ":", "p", "/", "d">>,
     <<"p", "o", "s", "t", "g", "r", "e", "s", "q", "l", ":", "/", "/", "h", "/", "d">>,
     <<"s", "q", "l", "i", "t", "e", ":", "/", "/", "d">>,
     <<"m", "e", "m", "c", "a", "c", "h", "e", "d", ":", "/", "/", "h">>,
     <<"m", "o", "n", "g", "o", "d", "b", ":", "/", "/", "h">>,
     <<"r", "e", "d", "i", "s", ":", "/", "/", "h">>,
     <<"r", "e", "d", "i", "s", ":", "/", "/", "g", "@", "h", "/", "0">>,
     <<"d", "i", "r", ":", "/", "/", "d">>,
     <<"f", "i", "l", "e", ":", "/", "/", "/", "f">>,
     <<"f", "t", "p", ":", "/", "/", "h">>,
     <<>>}

\* url.startswith(prefix)
StartsWith(url, prefix) ==
    Len(url) >= Len(prefix) /\ SubSeq(url, 1, Len(prefix)) = prefix

\* The number of values MySQLSession._parse_connection_details and
\* RedisSession._parse_connection_details return, and the number of names
\* Handler.__init__ unpacks them into.
MySQLDetails == 4
RedisDetails == 4
HandlerNames == 5

\* a, b, ... = values: ValueError unless there are as many values as names.
Unpacked(values, names, class) ==
    IF values = names THEN [class |-> class, exc |-> "none"]
    ELSE [class |-> "raised", exc |-> "ValueError"]

\* Handler.__init__, the chain on the url: the storage class it sets and
\* the exception it raises.  "unset" is a handler without the attributes
\* storage_class and storage_client (the else branch returns None);
\* session.PostgresSession is no attribute of the session module.
HandlerInit(url) ==
    IF StartsWith(url, <<"m", "y", "s", "q", "l">>)
    THEN Unpacked(MySQLDetails, HandlerNames, "MySQL")
    ELSE IF StartsWith(url, <<"p", "o", "s", "t", "g", "r", "e", "s", "q", "l">>)
    THEN [class |-> "raised", exc |-> "AttributeError"]
    ELSE IF StartsWith(url, <<"s", "q", "l", "i", "t", "e">>)
    THEN [class |-> "raised", exc |-> "NotImplementedError"]
    ELSE IF StartsWith(url, <<"m", "e", "m", "c", "a", "c", "h", "e", "d">>)
    THEN [class |-> "Memcached", exc |-> "none"]
    ELSE IF StartsWith(url, <<"m", "o", "n", "g", "o", "d", "b">>)
    THEN [class |-> "Mongo", exc |-> "none"]
    ELSE IF StartsWith(url, <<"r", "e", "d", "i", "s">>)
    THEN Unpacked(RedisDetails, HandlerNames, "Redis")
    ELSE IF StartsWith(url, <<"d", "i", "r">>)
    THEN [class |-> "Dir", exc |-> "none"]
    ELSE IF StartsWith(url, <<"f", "i", "l", "e">>)
    THEN [class |-> "File", exc |-> "none"]
    ELSE [class |-> "unset", exc |-> "none"]

\* The application constructs its Handler from its settings.
DoHandler ==
    /\ backend = "unconstructed"
    /\ backend' = HandlerInit(settings.session_storage).class
    /\ lastOp' = [NoOp EXCEPT !.op = "Handler",
                              !.exc = HandlerInit(settings.session_storage).exc]
    /\ UNCHANGED <<settings, user_agent, now, store, nextId, served, sess,
                   cookie, proc>>

\* create_session of a handler without storage_class: the attribute
\* lookup of line 126 raises.
DoCreateSessionUnset(r) ==
    /\ backend = "unset"
    /\ served < MaxRequests
    /\ served' = served + 1
    /\ lastOp' = [NoOp EXCEPT !.op = "create_session", !.r = r,
                              !.exc = "AttributeError"]
    /\ UNCHANGED <<backend, settings, user_agent, now, store, nextId, sess,
                   cookie, proc>>

InitHandler ==
    /\ backend = "unconstructed"
    /\ settings \in {[duration |-> s.duration,
                       regeneration_interval |-> s.regeneration_interval,
                       session_storage |-> u] : s \in Settings, u \in Urls}
    /\ user_agent \in UserAgents
    /\ now = 0
    /\ store = {}
    /\ nextId = 1
    /\ served = 0
    /\ sess = [r \in Requests |-> NoSession]
    /\ cookie = [r \in Requests |-> NoCookie]
    /\ lastOp = NoOp
    /\ proc = [p \in Procs |-> Idle]

NextHandler ==
    \/ DoHandler
    \/ \E r \in Requests : DoCreateSessionUnset(r)
    \/ Tick
    \/ \E r \in Requests, sid \in 0..MaxIds :
          backend \in Backends /\ sid < nextId /\ DoCreateSession(r, sid)

SpecHandler == InitHandler /\ [][NextHandler]_vars

\* -------------------------------------------------------------- durations
\* The decimal string of a count of seconds.
RECURSIVE Decimal(_)
Decimal(n) ==
    IF n < 10 THEN <<Digits[n + 1]>>
    ELSE Append(Decimal(n \div 10), Digits[(n % 10) + 1])

\* The values an application sets as duration or regeneration interval: a
\* count of seconds as int, as string and as timedelta; None; a value of
\* another type; strings that are no number.
MaxSeconds == 11
DurationInputs ==
    UNION {{IntV(n), StrV(Decimal(n)), TD(n)} : n \in 0..MaxSeconds}
    \cup {NoneV, OtherV, StrV(<<>>), StrV(<<"x">>), StrV(<<"1", "m">>)}

\* self.expires = self._expires_at(), as __init__ and refresh do it.
DoExpiresAt(r) ==
    /\ sess' = [sess EXCEPT ![r] =
                  IF ExpiresAt(sess[r], now).exc # "none" THEN @
                  ELSE [ExpiresAt(sess[r], now).s EXCEPT
                           !.expires = ExpiresAt(sess[r], now).at]]
    /\ lastOp' = [NoOp EXCEPT !.op = "_expires_at", !.r = r,
                              !.exc = ExpiresAt(sess[r], now).exc]
    /\ UNCHANGED <<backend, settings, user_agent, now, store, nextId, served,
                   cookie, proc>>

\* self.next_regeneration = self._next_regeneration_at()
DoNextRegenerationAt(r) ==
    /\ sess' = [sess EXCEPT ![r] =
                  IF NextRegenerationAt(sess[r], now).exc # "none" THEN @
                  ELSE [NextRegenerationAt(sess[r], now).s EXCEPT
                           !.next_regeneration = NextRegenerationAt(sess[r], now).at]]
    /\ lastOp' = [NoOp EXCEPT !.op = "_next_regeneration_at", !.r = r,
                              !.exc = NextRegenerationAt(sess[r], now).exc]
    /\ UNCHANGED <<backend, settings, user_agent, now, store, nextId, served,
                   cookie, proc>>

\* session._is_expired() and session._should_regenerate() of a session
\* whose expires and next_regeneration are set.
DoIsExpired(r) ==
    /\ sess[r].expires # NoTime
    /\ lastOp' = [NoOp EXCEPT !.op = "_is_expired", !.r = r,
                              !.flag = IsExpired(sess[r], now)]
    /\ UNCHANGED <<backend, settings, user_agent, now, store, nextId, served,
                   sess, cookie, proc>>
DoShouldRegenerate(r) ==
    /\ sess[r].next_regeneration # NoTime
    /\ lastOp' = [NoOp EXCEPT !.op = "_should_regenerate", !.r = r,
                              !.flag = ShouldRegenerate(sess[r], now)]
    /\ UNCHANGED <<backend, settings, user_agent, now, store, nextId, served,
                   sess, cookie, proc>>

\* A session object whose duration and regeneration_interval are as the
\* application gave them.
InitDuration ==
    /\ backend = "File"
    /\ settings \in {[duration |-> d, regeneration_interval |-> d] :
                        d \in DurationInputs}
    /\ user_agent = "ua"
    /\ now = 0
    /\ store = {}
    /\ nextId = 2
    /\ served = 0
    /\ sess = [r \in Requests |->
                 [HandlerKw(settings, user_agent) EXCEPT !.session_id = 1]]
    /\ cookie = [r \in Requests |-> NoCookie]
    /\ lastOp = NoOp
    /\ proc = [p \in Procs |-> Idle]

NextDuration ==
    \/ Tick
    \/ \E r \in Requests : DoExpiresAt(r)
    \/ \E r \in Requests : DoNextRegenerationAt(r)
    \/ \E r \in Requests : DoIsExpired(r)
    \/ \E r \in Requests : DoShouldRegenerate(r)

SpecDuration == InitDuration /\ [][NextDuration]_vars

\* ------------------------------------------------------------ concurrency
\* The operations a process makes: session[k] = v and save(); finish()
\* (refresh and save); refresh(new_session_id=True); load; delete; the
\* sweep.
ProcOps == {"save", "finish", "rotate", "load", "delete", "delete_expired"}

\* The storage calls of an operation, in the order it makes them.
CallsOf(op) ==
    CASE op \in {"save", "finish"} -> <<"save">>
      [] op = "rotate" -> <<"delete", "save">>
      [] op = "load" -> <<"load">>
      [] op = "delete" -> <<"delete">>
      [] op = "delete_expired" -> <<"sweep">>

\* How a storage call goes about the storage.  "rewrite": FileSession
\* opens the session file, writes every row it reads (changed) to a
\* temporary file and renames that to the session file; DirSession.save
\* writes its row to a temporary file and renames that.  "checked": a test
\* that the entry is there (os.path.isfile, EXISTS), then the access.
\* "loop": the names are listed, then each entry is read and, when it is
\* expired, removed.  "atomic": one call of the storage (one statement, one
\* command, the open of FileSession.load).
Kind(b, call) ==
    CASE b = "File" /\ call # "load" -> "rewrite"
      [] b = "Dir" /\ call = "save" -> "rewrite"
      [] b = "Dir" /\ call \in {"delete", "load"} -> "checked"
      [] b = "Redis" /\ call = "load" -> "checked"
      [] b \in {"Dir", "Redis"} /\ call = "sweep" -> "loop"
      [] OTHER -> "atomic"

\* Written with a save that adds its row and leaves the row the id had.
WrittenAppended(b, call, pr, st, t) ==
    CASE call = "save" ->
             st \cup Save(b, [pr.s EXCEPT !.dirty = TRUE], World({}, NoId), t).w.store
      [] call = "delete" -> Remove(st, pr.sid)
      [] call = "sweep" -> DeleteExpired(b, st, t)
      [] OTHER -> st

\* What a call makes of the entries st it works on.
Written(b, call, pr, st, t) ==
    CASE call = "save" ->
             Save(b, [pr.s EXCEPT !.dirty = TRUE], World(st, NoId), t).w.store
      [] call = "delete" -> Remove(st, pr.sid)
      [] call = "sweep" -> DeleteExpired(b, st, t)
      [] OTHER -> st

\* The storage in place of WhileWriting when the session file itself were
\* opened for writing: it is truncated until the rows are written.
WhileWritingInPlace(b, pr, st) ==
    IF Head(pr.calls) = "save" THEN Remove(st, pr.s.session_id) ELSE st

\* The storage while a call writes its temporary file: tempfile.mkstemp
\* names a new file, the session file is as it was.
WhileWriting(b, pr, st) == st

\* What the rename works on: the rows FileSession read from the file it
\* opened; for DirSession the directory as it is.
Base(b, pr, st) == IF b = "File" THEN pr.snap ELSE st

\* The process after its call returned, and after an exception ended it.
Returned(pr) ==
    [pr EXCEPT !.calls = Tail(@),
               !.pc = IF Len(pr.calls) = 1 THEN "done" ELSE "call",
               !.s.dirty = IF Head(pr.calls) = "save" /\ backend # "Mongo"
                           THEN FALSE ELSE @]
Ended(pr, exc) == [pr EXCEPT !.calls = <<>>, !.pc = "done", !.exc = exc]

\* The session object of a process that starts op on the session l it
\* loaded: session[k] = p for save; for finish and rotate what refresh
\* makes of the object before its storage calls.
Prepared(op, p, l, nid, t) ==
    CASE op = "save" -> [l EXCEPT !.data = [k \in Keys |-> p], !.dirty = TRUE]
      [] op = "finish" ->
             [Refresh(backend, l, World({}, nid), t, NoneV, FALSE).s
                 EXCEPT !.dirty = TRUE]
      [] op = "rotate" ->
             [Refresh(backend, l, World({}, nid), t, NoneV, TRUE).s
                 EXCEPT !.dirty = TRUE]
      [] OTHER -> l

\* A process starts an operation on the session of id sid, which it loads
\* first (the sweep works on no session).
Start(p, op, sid) ==
    /\ proc[p].op = "idle"
    /\ op = "delete_expired"
          => sid = NoId /\ SweepRaises(backend, "Class(client)") = "none"
    /\ op # "delete_expired" => sid # NoId
    /\ op \in {"save", "finish", "rotate", "delete"}
          => Load(backend, sid, NoSession, World(store, nextId), now) # NoSession
    /\ proc' = [proc EXCEPT ![p] =
                  [Idle EXCEPT !.op = op, !.pc = "call", !.sid = sid,
                               !.calls = CallsOf(op),
                               !.s = Prepared(op, p,
                                        Load(backend, sid, NoSession,
                                             World(store, nextId), now),
                                        nextId, now)]]
    /\ nextId' = IF op = "rotate" THEN nextId + 1 ELSE nextId
    /\ UNCHANGED <<backend, settings, user_agent, now, store, served, sess,
                   cookie, lastOp>>

\* A call that is one call of the storage.
Atomic(p) ==
    /\ proc[p].pc = "call"
    /\ Kind(backend, Head(proc[p].calls)) = "atomic"
    /\ store' = Written(backend, Head(proc[p].calls), proc[p], store, now)
    /\ proc' = [proc EXCEPT ![p] =
                  Returned([@ EXCEPT !.got =
                               IF Head(proc[p].calls) = "load"
                               THEN Load(backend, proc[p].sid, NoSession,
                                         World(store, nextId), now)
                               ELSE @])]
    /\ UNCHANGED <<backend, settings, user_agent, now, nextId, served, sess,
                   cookie, lastOp>>

\* FileSession's save, delete and delete_expired open the session file:
\* what they read from now on is the file as it is at this moment.  They
\* and DirSession.save write a temporary file.
Open(p) ==
    /\ proc[p].pc = "call"
    /\ Kind(backend, Head(proc[p].calls)) = "rewrite"
    /\ proc' = [proc EXCEPT ![p].pc = "opened", ![p].snap = store]
    /\ store' = WhileWriting(backend, proc[p], store)
    /\ UNCHANGED <<backend, settings, user_agent, now, nextId, served,
                   sess, cookie, lastOp>>

\* os.rename(writer_temp, file_path): the rows written from what was read
\* take the place of the session file; os.rename(temp_name, session_file).
Rename(p) ==
    /\ proc[p].pc = "opened"
    /\ store' = Written(backend, Head(proc[p].calls), proc[p],
                        Base(backend, proc[p], store), now)
    /\ proc' = [proc EXCEPT ![p] = Returned(@)]
    /\ UNCHANGED <<backend, settings, user_agent, now, nextId, served, sess,
                   cookie, lastOp>>

\* os.path.isfile(session_file), connection.exists(session_id).
Check(p) ==
    /\ proc[p].pc = "call"
    /\ Kind(backend, Head(proc[p].calls)) = "checked"
    /\ proc' = [proc EXCEPT ![p].pc = "checked",
                            ![p].snap = Find(store, proc[p].sid)]
    /\ UNCHANGED <<backend, settings, user_agent, now, store, nextId, served,
                   sess, cookie, lastOp>>

\* The access after the test: os.remove (OSError when the file is gone by
\* now), open and read, GET (load's except makes None of the failure).
Access(p) ==
    /\ proc[p].pc = "checked"
    /\ store' = IF Head(proc[p].calls) = "delete" /\ proc[p].snap # {}
                THEN Remove(store, proc[p].sid) ELSE store
    /\ proc' = [proc EXCEPT ![p] =
                  IF proc[p].snap = {} THEN Returned(@)
                  ELSE IF Head(proc[p].calls) = "load"
                  THEN Returned([@ EXCEPT !.got =
                                    Load(backend, proc[p].sid, NoSession,
                                         World(store, nextId), now)])
                  ELSE IF Find(store, proc[p].sid) = {} THEN Ended(@, "OSError")
                  ELSE Returned(@)]
    /\ UNCHANGED <<backend, settings, user_agent, now, nextId, served, sess,
                   cookie, lastOp>>

\* os.listdir(dir_path), connection.keys('*').
List(p) ==
    /\ proc[p].pc = "call"
    /\ Kind(backend, Head(proc[p].calls)) = "loop"
    /\ proc' = [proc EXCEPT ![p] =
                  IF store = {} THEN Returned(@)
                  ELSE [@ EXCEPT !.pc = "listed",
                                 !.left = {e.sid : e \in store}]]
    /\ UNCHANGED <<backend, settings, user_agent, now, store, nextId, served,
                   sess, cookie, lastOp>>

\* The sweep reads the entry of the next name: open(name) raises IOError
\* when the file is gone, and value.split AttributeError on the None that
\* GET gives for a key that is gone.
Read(p, sid) ==
    /\ proc[p].pc = "listed"
    /\ sid \in proc[p].left
    /\ proc' = [proc EXCEPT ![p] =
                  IF Find(store, sid) = {}
                  THEN Ended(@, IF backend = "Dir" THEN "IOError"
                                ELSE "AttributeError")
                  ELSE [@ EXCEPT !.pc = "read", !.sid = sid,
                                 !.left = @ \ {sid},
                                 !.snap = Find(store, sid)]]
    /\ UNCHANGED <<backend, settings, user_agent, now, store, nextId, served,
                   sess, cookie, lastOp>>

\* The sweep removes the name whose entry it read as expired: os.remove
\* (OSError when the file is gone), connection.delete(key).
Unlink(p) ==
    /\ proc[p].pc = "read"
    /\ store' = IF DeleteExpired(backend, proc[p].snap, now) = {}
                THEN Remove(store, proc[p].sid) ELSE store
    /\ proc' = [proc EXCEPT ![p] =
                  IF /\ DeleteExpired(backend, proc[p].snap, now) = {}
                     /\ backend = "Dir"
                     /\ Find(store, proc[p].sid) = {}
                  THEN Ended(@, "OSError")
                  ELSE IF proc[p].left = {} THEN Returned(@)
                  ELSE [@ EXCEPT !.pc = "listed"]]
    /\ UNCHANGED <<backend, settings, user_agent, now, nextId, served, sess,
                   cookie, lastOp>>

\* The sessions stored when the processes start: n sessions constructed
\* with the handler's keyword arguments at time 0.
RECURSIVE Stored(_, _, _)
Stored(b, kw, n) ==
    IF n = 0 THEN World({}, 1)
    ELSE [Construct(b, kw, Stored(b, kw, n - 1), 0).w EXCEPT !.log = <<>>]

\* The processes start at once or two seconds after the sessions were
\* stored.
InitConcurrent ==
    /\ backend \in Backends
    /\ settings \in Settings
    /\ user_agent = "ua"
    /\ now \in {0, 2 * TicksPerSec}
    /\ store = Stored(backend, HandlerKw(settings, user_agent), MaxIds).store
    /\ nextId = MaxIds + 1
    /\ served = 0
    /\ sess = [r \in Requests |-> NoSession]
    /\ cookie = [r \in Requests |-> NoCookie]
    /\ lastOp = NoOp
    /\ proc = [p \in Procs |-> Idle]

NextConcurrent ==
    \/ \E p \in Procs, op \in ProcOps, sid \in 0..MaxIds : Start(p, op, sid)
    \/ \E p \in Procs : Atomic(p)
    \/ \E p \in Procs : Open(p)
    \/ \E p \in Procs : Rename(p)
    \/ \E p \in Procs : Check(p)
    \/ \E p \in Procs : Access(p)
    \/ \E p \in Procs : List(p)
    \/ \E p \in Procs, sid \in 1..MaxIds : Read(p, sid)
    \/ \E p \in Procs : Unlink(p)

SpecConcurrent == InitConcurrent /\ [][NextConcurrent]_vars

\* ------------------------------------------------------------------ claims
\* What load(sid, client) returns in the current state and in the next.
Loaded(sid) == Load(backend, sid, NoSession, World(store, nextId), now)
LoadedNext(sid) == Load(backend', sid, NoSession, World(store', nextId'), now')

\* The step is operation op of a request, which did not raise.
Did(op) == lastOp'.op = op /\ lastOp'.exc = "none"

\* The session of the request of the step, before and after it.
Before == sess[lastOp'.r]
After == sess'[lastOp'.r]

\* The normalized duration and regeneration interval of a session, in ticks.
DurationTicks(s) == Ticks(ToTimedelta(s.duration, DefaultDuration).d)
IntervalTicks(s) ==
    Ticks(ToTimedelta(s.regeneration_interval, DefaultRegenerationInterval).d)

\* C1: when create_session is called with the id of a stored session whose
\* expires is strictly in the past, the session it returns has another,
\* newly generated id and empty data, and the old entry is left as it was.
C1_ExpiredIsSuperseded ==
    [][(/\ Did("create_session")
        /\ Loaded(lastOp'.sid).session_id # NoId
        /\ now > Loaded(lastOp'.sid).expires)
       => /\ After.session_id # lastOp'.sid
          /\ After.session_id >= nextId
          /\ After.data = EmptyData
          /\ Find(store', lastOp'.sid) = Find(store, lastOp'.sid)]_vars

\* C2: create_session called with no session id, or with an id load finds
\* no entry for, returns a fresh session (new id, empty data, expires = now
\* + normalized duration), having written the backend exactly once, for
\* that id, and leaves dirty false.
C2_FreshSession ==
    [][(/\ lastOp'.op = "create_session"
        /\ Find(store, lastOp'.sid) = {})
       => /\ lastOp'.exc = "none"
          /\ After.session_id >= nextId
          /\ After.data = EmptyData
          /\ After.expires = now + DurationTicks(HandlerKw(settings, NoneStr))
          /\ lastOp'.log = <<[op |-> "write", sid |-> After.session_id]>>
          /\ ~After.dirty]_vars

\* C3: a rotation (refresh with new_session_id=True) of a stored session
\* ends with the old id not loadable, a new id different from the old one,
\* the new id loading a session with the data from before the rotation,
\* and next_regeneration = now + normalized regeneration interval.
C3_Rotation ==
    [][(/\ Did("refresh") /\ lastOp'.flag
        /\ Find(store, Before.session_id) # {})
       => /\ LoadedNext(Before.session_id) = NoSession
          /\ After.session_id # Before.session_id
          /\ After.session_id >= nextId
          /\ LoadedNext(After.session_id).session_id = After.session_id
          /\ LoadedNext(After.session_id).data = Before.data
          /\ After.next_regeneration = now + IntervalTicks(Before)]_vars

\* The case of C3: a rotation of a stored session with data has been done.
C3_Witness ==
    /\ lastOp.op = "refresh" /\ lastOp.flag /\ lastOp.exc = "none"
    /\ lastOp.log = <<[op |-> "delete", sid |-> lastOp.sid],
                      [op |-> "write", sid |-> sess[lastOp.r].session_id]>>
    /\ sess[lastOp.r].data # EmptyData
    /\ Find(store, lastOp.sid) = {}

\* C4 as the spec states it: when shouldRotate is true at the finish of a
\* session not marked for cookie removal, finish rotates the session: the
\* old id is no longer loadable, the new id loads the same data and the
\* client is given the new id.
C4_FinishRotates ==
    [][(/\ Did("finish") /\ ~Before.delete_cookie
        /\ ShouldRegenerate(Before, now))
       => /\ LoadedNext(Before.session_id) = NoSession
          /\ lastOp'.s.session_id # Before.session_id
          /\ LoadedNext(lastOp'.s.session_id).data = Before.data
          /\ cookie'[lastOp'.r] = SetCookie(lastOp'.s.session_id)]_vars

\* C4 amended: finish never rotates, it keeps the session's id, persists
\* the session under it and gives the client that id; the rotation is done
\* by create_session, when the session it loaded has shouldRotate true:
\* then the old id is deleted, a new id is generated and persisted, the
\* old id is no longer loadable and the new id loads the same data.
C4_RotationAtCreateSession ==
    [][/\ (Did("finish") /\ ~Before.delete_cookie)
          => /\ lastOp'.s.session_id = Before.session_id
             /\ LoadedNext(Before.session_id).data = Before.data
             /\ cookie'[lastOp'.r] = SetCookie(Before.session_id)
       /\ (/\ Did("create_session")
           /\ Loaded(lastOp'.sid).session_id # NoId
           /\ ShouldRegenerate(Loaded(lastOp'.sid), now))
          => /\ After.session_id # lastOp'.sid
             /\ After.session_id >= nextId
             /\ After.data = Loaded(lastOp'.sid).data
             /\ LoadedNext(lastOp'.sid) = NoSession
             /\ LoadedNext(After.session_id).session_id = After.session_id
             /\ LoadedNext(After.session_id).data = Loaded(lastOp'.sid).data]_vars

\* The case of C4: create_session has rotated a session that holds data.
C4_Witness ==
    /\ lastOp.op = "create_session" /\ lastOp.exc = "none"
    /\ lastOp.sid # NoId
    /\ sess[lastOp.r].session_id # lastOp.sid
    /\ sess[lastOp.r].data # EmptyData
    /\ lastOp.log = <<[op |-> "delete", sid |-> lastOp.sid],
                      [op |-> "write", sid |-> sess[lastOp.r].session_id]>>

C7_SaveClearsDirty ==
    [][Did("save")
       => /\ ~After.dirty
          /\ (lastOp.op = "save" /\ lastOp.exc = "none" /\ lastOp.r = lastOp'.r)
                => lastOp'.log = <<>>]_vars

\* C8: for every backend, after a save that wrote the record, load of its
\* id returns a record with the same session id, data, ip_address,
\* user_agent, expires, duration, regeneration_interval and
\* next_regeneration, and with dirty false.
C8_SaveLoadRoundTrip ==
    (lastOp.op \in {"save", "construct"} /\ lastOp.exc = "none"
        /\ lastOp.log # <<>>)
    => LET s == sess[lastOp.r]
           l == Loaded(s.session_id)
       IN  /\ l.session_id = s.session_id
           /\ l.data = s.data
           /\ l.ip_address = s.ip_address
           /\ l.user_agent = s.user_agent
           /\ l.expires = s.expires
           /\ l.duration = s.duration
           /\ l.regeneration_interval = s.regeneration_interval
           /\ l.next_regeneration = s.next_regeneration
           /\ ~l.dirty

\* The case of C8: a record with data, whose expiry is no whole second,
\* was saved over its earlier entry.
C8_Witness ==
    /\ lastOp.op = "save" /\ lastOp.exc = "none" /\ lastOp.log # <<>>
    /\ sess[lastOp.r].data # EmptyData
    /\ sess[lastOp.r].expires % TicksPerSec # 0

\* C9: for every backend and every id, stored or not, delete does not
\* raise, afterwards load of the id returns None, and the entries of all
\* other ids are unchanged.
C9_Delete ==
    [][lastOp'.op = "delete"
       => /\ lastOp'.exc = "none"
          /\ LoadedNext(lastOp'.sid) = NoSession
          /\ Find(store', lastOp'.sid) = {}
          /\ \A e \in store : e.sid # lastOp'.sid => e \in store'
          /\ store' \subseteq store]_vars

\* The case of C9: a delete has left the entry of another id behind.
C9_Witness ==
    /\ lastOp.op = "delete" /\ lastOp.exc = "none"
    /\ Find(store, lastOp.sid) = {}
    /\ store # {}

\* C10: for every backend that supports the sweep, delete_expired at time
\* now removes exactly the entries whose stored expiry is strictly before
\* now (in whole seconds) and leaves every other entry.
C10_SweepExact ==
    [][(Did("delete_expired") /\ backend # "Memcached")
       => store' = {e \in store : ~(e.expires < EpochSeconds(now))}]_vars

\* C11: on Memcached every call of delete_expired signals NotImplemented
\* instead of returning normally, and it changes no stored entry.
C11_SweepNotImplemented ==
    [][(lastOp'.op = "delete_expired" /\ backend = "Memcached")
       => /\ lastOp'.exc = "NotImplementedError"
          /\ store' = store]_vars

\* C12: no failure on the read path of create_session raises to the
\* caller; where the load fails (here: the load call that cannot be made
\* with the arguments create_session passes) create_session returns a
\* fresh session.
C12_ReadFailureGivesFresh ==
    [][lastOp'.op = "create_session"
       => /\ lastOp'.exc = "none"
          /\ After.session_id # NoId
          /\ ~LoadTakesKw(backend)
                => /\ After.session_id >= nextId
                   /\ After.data = EmptyData]_vars

\* The last call the step's operation made of the storage client, and
\* whether it failed.
LastCall == lastOp'.log[Len(lastOp'.log)].op
BackendFailed ==
    lastOp'.log # <<>> /\ LastCall \in {"write failed", "delete failed"}

\* The session object the operation of the step leaves.
Left == IF lastOp'.op = "finish" THEN lastOp'.s ELSE After

\* C13: a failure of the write or delete made inside finish, refresh or
\* invalidate propagates to the caller; the failed save does not clear
\* dirty, the failed delete of invalidate leaves the cookie unmarked, and
\* the failed call stores and removes nothing.
C13_FailurePropagates ==
    [][(lastOp'.op \in {"finish", "refresh", "invalidate"} /\ BackendFailed)
       => /\ lastOp'.exc = "StorageError"
          /\ cookie'[lastOp'.r] = IF lastOp'.op = "finish" THEN NoCookie
                                  ELSE cookie[lastOp'.r]
          /\ LastCall = "write failed" => Left.dirty
          /\ Left.delete_cookie = Before.delete_cookie
          /\ store' = IF Len(lastOp'.log) = 2
                      THEN Remove(store, lastOp'.sid) ELSE store]_vars

\* A case of C13: the save of a rotation failed after its delete.
C13_Witness ==
    /\ lastOp.op = "refresh" /\ lastOp.flag
    /\ lastOp.exc = "StorageError"
    /\ lastOp.log = <<[op |-> "delete", sid |-> lastOp.sid],
                      [op |-> "write failed", sid |-> sess[lastOp.r].session_id]>>
    /\ sess[lastOp.r].dirty
    /\ now > 0
    /\ Find(store, lastOp.sid) = {}

\* The entry the save of process p writes, and the session a load gives
\* of the entries st.
SavedBy(p) == Written(backend, "save", proc[p], {}, now)
LoadedOf(sid, st) == Load(backend, sid, NoSession, World(st, nextId), now)
Finished(p, op) == proc[p].op = op /\ proc[p].pc = "done"

\* C14: when two requests saved different data under the same session id
\* at the same time, whatever the order of their steps, the entry stored
\* after both saves is the entry of one of them, whole, and a load
\* returns a session with the data of that one: never nothing, never a
\* mixture.
C14_LastWriterWins ==
    (/\ Finished(1, "save") /\ Finished(2, "save")
     /\ proc[1].sid = proc[2].sid)
    => /\ Find(store, proc[1].sid) \in {SavedBy(1), SavedBy(2)}
       /\ Loaded(proc[1].sid) # NoSession
       /\ Loaded(proc[1].sid) \in {LoadedOf(proc[1].sid, SavedBy(1)),
                                   LoadedOf(proc[1].sid, SavedBy(2))}
       /\ Loaded(proc[1].sid).data \in {proc[1].s.data, proc[2].s.data}

\* Both saves opened the session file before either renamed, and the
\* entry left is the one of the process that renamed last.
C14_Witness ==
    /\ Finished(1, "save") /\ Finished(2, "save")
    /\ proc[1].sid = proc[2].sid
    /\ backend = "File"
    /\ proc[1].snap = proc[2].snap /\ proc[1].snap # {}
    /\ proc[1].s.data # proc[2].s.data
    /\ Loaded(proc[1].sid).data = proc[1].s.data
    /\ Cardinality(store) = MaxIds

\* The entries stored when the processes start.
StoredAtStart == Stored(backend, HandlerKw(settings, user_agent), MaxIds).store

\* C15: a load that ran while another request saved the same id, at
\* whatever step of the save, returned the session as it was stored before
\* the save or the whole session the save writes, never a partly written
\* entry (which load would give as no session or as other data).
C15_ReaderSeesOldOrNew ==
    \A p \in Procs, q \in Procs :
        (/\ Finished(p, "load")
         /\ proc[q].op = "save" /\ proc[q].sid = proc[p].sid)
        => /\ proc[p].got \in {LoadedOf(proc[p].sid, StoredAtStart),
                               LoadedOf(proc[p].sid, SavedBy(q))}
           /\ proc[p].exc = "none"

\* A load of the id returned the earlier session while the save has
\* written its temporary file and not yet renamed it.
C15_Witness ==
    /\ Finished(1, "load")
    /\ proc[2].op = "save" /\ proc[2].sid = proc[1].sid
    /\ proc[2].pc = "opened"
    /\ backend \in {"File", "Dir"}
    /\ proc[1].got # NoSession
    /\ proc[1].got.data = EmptyData
    /\ proc[1].got.data # proc[2].s.data

\* C16: when delete_expired ran at the same time as a request that stored
\* its session (save, or the refresh and save of finish) with an expiry in
\* the future, whatever the order of their steps, after both completed
\* the session is stored with the payload and the expiry that were saved:
\* the sweep neither removed it nor put its earlier entry back.
C16_SweepSparesSaved ==
    \A p \in Procs, q \in Procs :
        (/\ proc[p].op \in {"save", "finish"} /\ proc[p].pc = "done"
         /\ Finished(q, "delete_expired")
         /\ \A e \in SavedBy(p) : e.expires > EpochSeconds(now))
        => Find(store, proc[p].sid) = SavedBy(p)

\* The session_storage setting names none of the media of the handler's
\* chain: it is absent or its prefix is not recognized.
Media ==
    {<<"m", "y", "s", "q", "l">>,
     <<"p", "o", "s", "t", "g", "r", "e", "s", "q", "l">>,
     <<"s", "q", "l", "i", "t", "e">>,
     <<"m", "e", "m", "c", "a", "c", "h", "e", "d">>,
     <<"m", "o", "n", "g", "o", "d", "b">>,
     <<"r", "e", "d", "i", "s">>,
     <<"d", "i", "r">>,
     <<"f", "i", "l", "e">>}
Unrecognized(url) == \A m \in Media : ~StartsWith(url, m)

\* C17: when session_storage is absent or has an unrecognized prefix,
\* constructing the Handler reports the failure (it raises), and no
\* session is ever constructed by that handler.
C17_ConfigurationError ==
    (backend # "unconstructed" /\ Unrecognized(settings.session_storage))
    => /\ backend = "raised"
       /\ store = {}
       /\ \A r \in Requests : ~Active(r)

\* The seconds a duration value stands for: the count of an int or a
\* timedelta, the count whose decimal string a string is, def otherwise.
Seconds(v, def) ==
    CASE v.t \in {"int", "td"} -> v.n
      [] v.t = "str" /\ (\E n \in 0..MaxSeconds : Decimal(n) = v.s) ->
             CHOOSE n \in 0..MaxSeconds : Decimal(n) = v.s
      [] OTHER -> def

\* C18: normalizing the duration (_expires_at) or the regeneration interval
\* (_next_regeneration_at) never raises and leaves a timedelta of the
\* seconds the value stands for: the same for an int, its string and the
\* equal timedelta, the default (900 s, 240 s) for an absent, unsupported
\* or malformed value such as a string that is no number; a normalized
\* value stays as it is.  The time returned is now plus that.
C18_Normalization ==
    [][/\ lastOp'.op = "_expires_at"
          => /\ lastOp'.exc = "none"
             /\ After.duration = TD(Seconds(Before.duration, DefaultDuration))
             /\ After.expires = now + Seconds(Before.duration, DefaultDuration) * TicksPerSec
       /\ lastOp'.op = "_next_regeneration_at"
          => /\ lastOp'.exc = "none"
             /\ After.regeneration_interval
                  = TD(Seconds(Before.regeneration_interval, DefaultRegenerationInterval))
             /\ After.next_regeneration
                  = now + Seconds(Before.regeneration_interval,
                                  DefaultRegenerationInterval) * TicksPerSec]_vars

C20_OldIdStaysInvalid ==
    \A p \in Procs :
        (Finished(p, "rotate") /\ proc[p].exc = "none")
        => /\ proc[p].s.session_id # proc[p].sid
           /\ Loaded(proc[p].sid) = NoSession

\* C21: MemcachedSession.save stores the entry with a timeout of the whole
\* seconds between the time of the save and the session's expires, for
\* every duration, also of a day or more: the store drops the entry that
\* many seconds after the save, not earlier and not never.
C21_TimeoutIsTimeToExpiry ==
    (/\ backend = "Memcached"
     /\ lastOp.op \in {"save", "construct"} /\ lastOp.exc = "none"
     /\ lastOp.log # <<>>
     /\ sess[lastOp.r].expires - now >= TicksPerSec)
    => \A e \in Find(store, sess[lastOp.r].session_id) :
          e.dropAt = now + ((sess[lastOp.r].expires - now) \div TicksPerSec)
                           * TicksPerSec

\* C22: constructing a Handler from settings whose session_storage is a
\* redis:// url, with a group name or without, does not raise and gives a
\* handler of the Redis backend, and that is the backend of every later
\* create_session.
C22_RedisHandler ==
    (/\ backend # "unconstructed"
     /\ StartsWith(settings.session_storage, <<"r", "e", "d", "i", "s", ":", "/", "/">>))
    => /\ backend = "Redis"
       /\ lastOp.op = "Handler" => lastOp.exc = "none"

\* C23: a stored session is invalid strictly after its expires: once now
\* is after the expires of the session stored under an id, no
\* create_session with that id gives its caller the data of that session,
\* and no step (create_session, finish, ...) stores a later expires under
\* that id.
C23_ExpiredStaysInvalid ==
    [][\A sid \in 1..MaxIds :
          (Loaded(sid) # NoSession /\ now > Loaded(sid).expires)
          => /\ (/\ Did("create_session") /\ lastOp'.sid = sid
                 /\ Loaded(sid).data # EmptyData)
                => After.data # Loaded(sid).data
             /\ \A e \in Find(store, sid), f \in Find(store', sid) :
                   f.expires <= e.expires]_vars

\* C24: from an empty store, after any sequence of save, delete, rotation
\* and delete_expired, the backend holds at most one entry for every
\* session id, and a save of an id that is stored replaces its entry: the
\* number of entries stays, and the entry of the id is the saved one.
C24_OneEntryPerId ==
    [][/\ \A sid \in 1..(MaxIds + 1) : Cardinality(Find(store', sid)) <= 1
       /\ (Did("save") /\ lastOp'.log # <<>> /\ Find(store, lastOp'.sid) # {})
          => /\ Cardinality(store') = Cardinality(store)
             /\ \A e \in Find(store', lastOp'.sid) :
                   e.payload = Serialize(After)]_vars

\* A session with data was saved over its entry while another session is
\* stored.
C24_Witness ==
    /\ lastOp.op = "save" /\ lastOp.exc = "none" /\ lastOp.log # <<>>
    /\ Cardinality(store) = 2
    /\ Cardinality(Find(store, lastOp.sid)) = 1
    /\ Loaded(lastOp.sid).data # EmptyData

\* C25: in RedisSession.save a failure of the request for a background
\* checkpoint, of whatever kind, does not fail the save: the key holds the
\* new value, save returns normally and dirty is cleared.
C25_CheckpointIsBestEffort ==
    [][(/\ lastOp'.op = "save" /\ backend = "Redis"
        /\ lastOp'.log # <<>>
        /\ lastOp'.log[Len(lastOp'.log)].op = "bgsave failed")
       => /\ lastOp'.exc = "none"
          /\ ~After.dirty
          /\ \A e \in Find(store', Before.session_id) :
                e.payload = Serialize(Before)
          /\ Find(store', Before.session_id) # {}]_vars

\* The step stored the session object as it is after the step.
Persisted ==
    /\ lastOp'.exc = "none"
    /\ \E e \in Find(store', After.session_id) : e.payload = Serialize(After)

\* C26: dirty is true whenever data, expires or session_id changed since
\* the last successful persist: every set and every delete of a key sets
\* dirty; after every refresh and every rotation that changed expires or
\* session_id the object is dirty unless the step has stored it; reading
\* a key, iterating and taking the length leave the object, dirty and
\* data, as it was.
C26_DirtyTracksChanges ==
    [][/\ Did("setitem") \/ Did("delitem") => After.dirty
       /\ (/\ lastOp'.op = "refresh"
           /\ \/ After.expires # Before.expires
              \/ After.session_id # Before.session_id
              \/ After.data # Before.data)
          => After.dirty \/ Persisted
       /\ lastOp'.op \in {"getitem", "iter", "len"} => After = Before]_vars

\* C27: refresh(duration=d) sets expires to now + normalize(d) for every d
\* supplied, and the session keeps d from then on: it is stored with d, so
\* that a load gives a session of duration d, and every later refresh
\* without a duration and every finish computes expires from the
\* session's own duration.
C27_RefreshKeepsDuration ==
    [][/\ (lastOp'.op = "refresh" /\ lastOp'.duration # NoneV)
          => /\ lastOp'.exc = "none"
             /\ After.duration = TD(Seconds(lastOp'.duration, DefaultDuration))
             /\ After.expires
                  = now + Seconds(lastOp'.duration, DefaultDuration) * TicksPerSec
             /\ LoadedNext(After.session_id).duration = After.duration
       /\ (Did("refresh") /\ lastOp'.duration = NoneV)
          => After.expires = now + DurationTicks(Before)
       /\ (Did("finish") /\ ~Before.delete_cookie)
          => lastOp'.s.expires = now + DurationTicks(Before)]_vars

\* C28: every entry create_session writes to the backend is stored under
\* the id of the session it returns to its caller: no create_session
\* leaves behind an entry of a session it did not return.
C28_NoOrphanEntries ==
    [][lastOp'.op = "create_session"
       => \A e \in store' \ store :
             lastOp'.exc = "none" /\ e.sid = After.session_id]_vars

\* C29: a rotation (refresh with new_session_id=True) of a stored session
\* leaves the session stored under its old id or under its new id, also
\* when the delete or the save of the rotation fails: after no rotation
\* is the session stored under neither id.
C29_RotationKeepsSession ==
    [][(/\ lastOp'.op = "refresh" /\ lastOp'.flag
        /\ Find(store, lastOp'.sid) # {})
       => \/ Find(store', lastOp'.sid) # {}
          \/ Find(store', After.session_id) # {}]_vars

\* C30: on the File backend, when two requests saved sessions of
\* different ids at the same time, or one saved and the other deleted,
\* whatever the order of their steps, after both completed the entry of
\* every saved session is the saved one and the deleted session has no
\* entry: neither rewrite of the shared file undid the other.
C30_BothEffectsKept ==
    (/\ backend = "File"
     /\ \A p \in Procs : Finished(p, "save") \/ Finished(p, "delete")
     /\ \E p \in Procs : Finished(p, "save")
     /\ proc[1].sid # proc[2].sid)
    => \A p \in Procs :
          Find(store, proc[p].sid)
             = IF proc[p].op = "save" THEN SavedBy(p) ELSE {}

\* C31: delete_expired never removes the entry of a session that
\* _is_expired reports as not expired at the same instant: every entry a
\* sweep removes is the entry of a session whose expires is strictly
\* before now.
C31_SweepRemovesOnlyExpired ==
    [][Did("delete_expired")
       => \A e \in store \ store' : IsExpired(Loaded(e.sid), now)]_vars

\* C32: when two requests with the same session id ran create_session at
\* the same time while the session was due for regeneration (each loaded
\* it and called refresh(new_session_id=True)), whatever the order of
\* their steps, at most one successor of the session is stored after
\* both completed: the session is not forked into two stored sessions of
\* different ids.
C32_NoFork ==
    (/\ LoadTakesKw(backend)
     /\ Finished(1, "rotate") /\ Finished(2, "rotate")
     /\ proc[1].sid = proc[2].sid
     /\ ShouldRegenerate(LoadedOf(proc[1].sid, StoredAtStart), now)
     /\ ~IsExpired(LoadedOf(proc[1].sid, StoredAtStart), now))
    => Cardinality({e \in store :
                      e.sid \in {proc[1].s.session_id,
                                 proc[2].s.session_id}}) <= 1

\* The entries of the ids other than sid.
Others(st, sid) == {e \in st : e.sid # sid}

\* C33: a refresh without new_session_id, and so a finish, leaves the
\* session's session_id, data and next_regeneration as they were and
\* changes no backend entry but the one of that session_id;
\* create_session with the id of a stored session that is neither expired
\* nor due for regeneration returns that session, with the stored id,
\* data and expires, and makes no backend write.
C33_FrameEffects ==
    [][/\ (Did("refresh") /\ ~lastOp'.flag)
          => /\ After.session_id = Before.session_id
             /\ After.data = Before.data
             /\ After.next_regeneration = Before.next_regeneration
             /\ Others(store', Before.session_id)
                  = Others(store, Before.session_id)
       /\ (Did("finish") /\ ~Before.delete_cookie)
          => /\ lastOp'.s.session_id = Before.session_id
             /\ lastOp'.s.data = Before.data
             /\ lastOp'.s.next_regeneration = Before.next_regeneration
             /\ Others(store', Before.session_id)
                  = Others(store, Before.session_id)
       /\ (/\ lastOp'.op = "create_session"
           /\ Loaded(lastOp'.sid) # NoSession
           /\ ~IsExpired(Loaded(lastOp'.sid), now)
           /\ ~ShouldRegenerate(Loaded(lastOp'.sid), now))
          => /\ lastOp'.exc = "none"
             /\ After.session_id = lastOp'.sid
             /\ After.data = Loaded(lastOp'.sid).data
             /\ After.expires = Loaded(lastOp'.sid).expires
             /\ lastOp'.log = <<>>
             /\ store' = store]_vars

====
